---- MODULE Spec2Model ----
(***************************************************************************)
(* RecursiveWebLoader (src/src/lib.rs): a depth-bounded recursive crawler. *)
(*                                                                         *)
(* A URL string is a sequence of tokens, so that starts_with, ends_with    *)
(* and push('/') are computed on the string itself:                        *)
(*   "http://h/a/"  is  <<"http:", "//h", "/", "a", "/">>                  *)
(* An href of a page is a token sequence too ("/a/", "b/", "", ...).       *)
(* The HTTP server is a map from request target to the hrefs of the <a>    *)
(* elements of the page it serves.                                         *)
(***************************************************************************)
EXTENDS Integers, Sequences, FiniteSets, TLC

VARIABLES
    cfg,        \* the RecursiveWebLoader: url, exclude_dirs, max_depth, prevent_outside
    site,       \* the server: request target -> hrefs of the page, in markup order
    pc,         \* position of load(): "start", "crawl", "done"
    docs,       \* load()'s docs vector
    visited,    \* load()'s visited HashSet
    stack,      \* call stack of get_child_urls_recursive, innermost frame last
    fetchLog,   \* history: every call of fetch_url, in order
    fails,      \* history: number of fetches that failed
    extract     \* one call of extractor: its position and its local values

vars == <<cfg, site, pc, docs, visited, stack, fetchLog, fails, extract>>

----------------------------------------------------------------------------
\* Bounds of the model.

\* max_depth is drawn from 0..MaxDepthBound.
MaxDepthBound == 2
\* At most MaxFail fetches of one run fail.
MaxFail == 1
\* A text node of the markup holds 1..MaxFragLen characters.
MaxFragLen == 2

----------------------------------------------------------------------------
\* Strings.

starts_with(s, p) == Len(p) <= Len(s) /\ SubSeq(s, 1, Len(p)) = p

ends_with(s, t) == Len(s) > 0 /\ s[Len(s)] = t

\* The extension list with its first entry missing.
NonPageExtShort == {".js", ".ico", ".png", ".jpg", ".jpeg", ".gif", ".svg"}

\* Lines 162-169.
NonPageExt == {".css", ".js", ".ico", ".png", ".jpg", ".jpeg", ".gif", ".svg"}

\* reqwest::Url::parse(..).as_str(): a URL with an empty path gets the path "/".
UrlParse(u) == IF Len(u) = 2 THEN u \o <<"/">> ELSE u

\* Url::join for the href shapes of the model: empty (the base itself),
\* path-absolute ("/..."), path-relative (resolved in the base's directory),
\* and an href with a scheme of its own, which is its own resolution.
UrlJoin(base, href) ==
    LET b == UrlParse(base)
        slashes == {i \in 1..Len(b) : b[i] = "/"}
        last == CHOOSE i \in slashes : \A j \in slashes : j <= i
    IN  IF href = <<>> THEN b
        ELSE IF Head(href) \in {"mailto:", "javascript:"} THEN href
        ELSE IF Head(href) = "/" THEN SubSeq(b, 1, 2) \o href
        ELSE SubSeq(b, 1, last) \o href

\* The closure of lines 146-154: an href to an absolute URL.
Normalize(href, base_url) ==
    IF starts_with(href, <<"http:">>) THEN href
    ELSE IF Len(href) > 0 /\ Head(href) \in {"//h", "//x"} THEN <<"http:">> \o href
    ELSE UrlJoin(base_url, href)

\* A filter whose containment test is left out.
KeepLinkAnywhere(link, base_url) ==
    /\ ~ \E ex_dir \in cfg.exclude_dirs : starts_with(link, ex_dir)
    /\ ~ starts_with(link, <<"javascript:">>)
    /\ ~ starts_with(link, <<"mailto:">>)
    /\ ~ \E ext \in NonPageExt : ends_with(link, ext)

\* A filter whose containment test looks at scheme and host only.
KeepLinkSameHost(link, base_url) ==
    /\ ~ \E ex_dir \in cfg.exclude_dirs : starts_with(link, ex_dir)
    /\ ~ starts_with(link, <<"javascript:">>)
    /\ ~ starts_with(link, <<"mailto:">>)
    /\ ~ \E ext \in NonPageExt : ends_with(link, ext)
    /\ (~ cfg.prevent_outside \/ starts_with(link, SubSeq(UrlParse(base_url), 1, 2)))

\* The closure of lines 155-171.
KeepLink(link, base_url) ==
    /\ ~ \E ex_dir \in cfg.exclude_dirs : starts_with(link, ex_dir)
    /\ ~ starts_with(link, <<"javascript:">>)
    /\ ~ starts_with(link, <<"mailto:">>)
    /\ ~ \E ext \in NonPageExt : ends_with(link, ext)
    /\ (~ cfg.prevent_outside \/ starts_with(link, UrlParse(base_url)))

get_child_links(html, base_url) ==
    LET links == [i \in 1..Len(html) |-> Normalize(html[i], base_url)]
        Keep(link) == KeepLink(link, base_url)
    IN  SelectSeq(links, Keep)

----------------------------------------------------------------------------
\* The server and the fetcher.

\* The body the server sends for a URL: the hrefs of its page.
Response(url) ==
    LET target == UrlParse(url)
    IN  [page |-> target,
         hrefs |-> IF target \in DOMAIN site THEN site[target] ELSE <<>>]

\* A fetch may fail while the run has failed fewer than MaxFail times.
FetchOutcomes == IF fails < MaxFail THEN {TRUE, FALSE} ELSE {TRUE}

Logged(url, kind, ok, level, parent, idx) ==
    Append(fetchLog, [url |-> url, kind |-> kind, ok |-> ok, level |-> level,
                      parent |-> parent, idx |-> idx])

\* extractor and extract_metadata: the text is the page's, the source the URL's.
Document(response, url) ==
    [page_content |-> response.page, metadata |-> [source |-> url]]

----------------------------------------------------------------------------
\* get_child_urls_recursive.

Frame(input_url, depth) ==
    [input_url |-> input_url, depth |-> depth, st |-> "enter",
     url |-> <<>>, child_urls |-> <<>>, i |-> 1, results |-> <<>>]

Top == stack[Len(stack)]

\* The depth test off by one.
DepthReachedLate(depth) == depth > cfg.max_depth

\* Line 182.
DepthReached(depth) == depth >= cfg.max_depth

\* A recursive call that hands its own depth on.
SameDepth(depth) == depth

\* Line 219: the depth of the recursive call.
NextDepth(depth) == depth + 1

\* Lines 186-189.
WithSlash(input_url) ==
    IF ends_with(input_url, "/") THEN input_url ELSE input_url \o <<"/">>

\* An exclusion test that never matches.
ExcludedNever(url) == FALSE

\* Lines 191-197.
Excluded(url) == \E ex_dir \in cfg.exclude_dirs : starts_with(url, ex_dir)

\* A visited test that lets every child through.
ShouldSkipNever(child_url, seen) == FALSE

\* Line 209.
ShouldSkip(child_url, seen) == child_url \in seen

\* An insert that is lost.
MarkVisitedLost(child_url, seen) == seen

\* Lines 212 and 235.
MarkVisited(child_url, seen) == seen \cup {child_url}

\* A child that is expanded whatever its last character.
ShouldRecurseAlways(child_url) == TRUE

\* Line 217.
ShouldRecurse(child_url) == ends_with(child_url, "/")

\* Line 208: the for loop has run out of children.
LoopFinished(f) == f.i > Len(f.child_urls)

\* A return whose documents are put in front of the caller's.
ReturnPrepend(res) ==
    IF Len(stack) = 1
    THEN /\ docs' = res \o docs
         /\ stack' = <<>>
         /\ pc' = "done"
    ELSE LET caller == stack[Len(stack) - 1]
         IN  /\ stack' = [SubSeq(stack, 1, Len(stack) - 1) EXCEPT ![Len(stack) - 1] =
                            [caller EXCEPT !.results = res \o caller.results,
                                           !.i = caller.i + 1]]
             /\ UNCHANGED <<docs, pc>>

\* The innermost call returns res: to load() (line 240) or into the caller's
\* results (line 221), which then moves to its next child.
Return(res) ==
    IF Len(stack) = 1
    THEN /\ docs' = docs \o res
         /\ stack' = <<>>
         /\ pc' = "done"
    ELSE LET caller == stack[Len(stack) - 1]
         IN  /\ stack' = [SubSeq(stack, 1, Len(stack) - 1) EXCEPT ![Len(stack) - 1] =
                            [caller EXCEPT !.results = caller.results \o res,
                                           !.i = caller.i + 1]]
             /\ UNCHANGED <<docs, pc>>

\* Line 182-184.
EnterDepthReached ==
    /\ pc = "crawl" /\ stack # <<>> /\ Top.st = "enter"
    /\ DepthReached(Top.depth)
    /\ Return(<<>>)
    /\ UNCHANGED <<extract, cfg, site, visited, fetchLog, fails>>

\* Lines 186-197.
EnterExcluded ==
    /\ pc = "crawl" /\ stack # <<>> /\ Top.st = "enter"
    /\ ~ DepthReached(Top.depth)
    /\ Excluded(WithSlash(Top.input_url))
    /\ Return(<<>>)
    /\ UNCHANGED <<extract, cfg, site, visited, fetchLog, fails>>

\* A failed expansion fetch that ends the whole run with what load() holds.
EnterFetchFailPropagates ==
    /\ pc = "crawl" /\ stack # <<>> /\ Top.st = "enter"
    /\ ~ DepthReached(Top.depth)
    /\ ~ Excluded(WithSlash(Top.input_url))
    /\ FALSE \in FetchOutcomes
    /\ fetchLog' = Logged(WithSlash(Top.input_url), "expand", FALSE, Top.depth,
                          Top.input_url, 0)
    /\ fails' = fails + 1
    /\ stack' = <<>>
    /\ pc' = "done"
    /\ UNCHANGED <<extract, cfg, site, docs, visited>>

\* Lines 199-202, Err.
EnterFetchFail ==
    /\ pc = "crawl" /\ stack # <<>> /\ Top.st = "enter"
    /\ ~ DepthReached(Top.depth)
    /\ ~ Excluded(WithSlash(Top.input_url))
    /\ FALSE \in FetchOutcomes
    /\ fetchLog' = Logged(WithSlash(Top.input_url), "expand", FALSE, Top.depth,
                          Top.input_url, 0)
    /\ fails' = fails + 1
    /\ Return(<<>>)
    /\ UNCHANGED <<extract, cfg, site, visited>>

\* Lines 199-206, Ok.
EnterFetchOk ==
    /\ pc = "crawl" /\ stack # <<>> /\ Top.st = "enter"
    /\ ~ DepthReached(Top.depth)
    /\ ~ Excluded(WithSlash(Top.input_url))
    /\ LET url == WithSlash(Top.input_url)
           res == Response(url)
       IN  /\ fetchLog' = Logged(url, "expand", TRUE, Top.depth, Top.input_url, 0)
           /\ stack' = [stack EXCEPT ![Len(stack)] =
                          [Top EXCEPT !.st = "loop", !.url = url,
                                      !.child_urls = get_child_links(res.hrefs, url)]]
    /\ UNCHANGED <<extract, cfg, site, pc, docs, visited, fails>>

\* A loop whose continue does not move to the next child.
LoopSkipStuck ==
    /\ pc = "crawl" /\ stack # <<>> /\ Top.st = "loop"
    /\ ~ LoopFinished(Top)
    /\ ShouldSkip(Top.child_urls[Top.i], visited)
    /\ UNCHANGED vars

\* Lines 208-211.
LoopSkip ==
    /\ pc = "crawl" /\ stack # <<>> /\ Top.st = "loop"
    /\ ~ LoopFinished(Top)
    /\ ShouldSkip(Top.child_urls[Top.i], visited)
    /\ stack' = [stack EXCEPT ![Len(stack)].i = Top.i + 1]
    /\ UNCHANGED <<extract, cfg, site, pc, docs, visited, fetchLog, fails>>

\* Line 212: the child is marked before it is fetched.
LoopVisit ==
    /\ pc = "crawl" /\ stack # <<>> /\ Top.st = "loop"
    /\ ~ LoopFinished(Top)
    /\ ~ ShouldSkip(Top.child_urls[Top.i], visited)
    /\ visited' = MarkVisited(Top.child_urls[Top.i], visited)
    /\ stack' = [stack EXCEPT ![Len(stack)].st = "fetch"]
    /\ UNCHANGED <<extract, cfg, site, pc, docs, fetchLog, fails>>

\* A failed child that ends the loop over its siblings.
LoopFetchFailBreaks ==
    /\ pc = "crawl" /\ stack # <<>> /\ Top.st = "fetch"
    /\ FALSE \in FetchOutcomes
    /\ fetchLog' = Logged(Top.child_urls[Top.i], "doc", FALSE, Top.depth + 1,
                          Top.input_url, Top.i)
    /\ fails' = fails + 1
    /\ stack' = [stack EXCEPT ![Len(stack)] =
                   [Top EXCEPT !.st = "loop", !.i = Len(Top.child_urls) + 1]]
    /\ UNCHANGED <<extract, cfg, site, pc, docs, visited>>

\* A failed child whose mark in the visited set is taken back.
LoopFetchFailUnmarks ==
    /\ pc = "crawl" /\ stack # <<>> /\ Top.st = "fetch"
    /\ FALSE \in FetchOutcomes
    /\ fetchLog' = Logged(Top.child_urls[Top.i], "doc", FALSE, Top.depth + 1,
                          Top.input_url, Top.i)
    /\ fails' = fails + 1
    /\ visited' = visited \ {Top.child_urls[Top.i]}
    /\ stack' = [stack EXCEPT ![Len(stack)] = [Top EXCEPT !.st = "loop", !.i = Top.i + 1]]
    /\ UNCHANGED <<extract, cfg, site, pc, docs>>

\* Line 214 with get_url_as_doc returning None: on to the next child.
LoopFetchFail ==
    /\ pc = "crawl" /\ stack # <<>> /\ Top.st = "fetch"
    /\ FALSE \in FetchOutcomes
    /\ fetchLog' = Logged(Top.child_urls[Top.i], "doc", FALSE, Top.depth + 1,
                          Top.input_url, Top.i)
    /\ fails' = fails + 1
    /\ stack' = [stack EXCEPT ![Len(stack)] = [Top EXCEPT !.st = "loop", !.i = Top.i + 1]]
    /\ UNCHANGED <<extract, cfg, site, pc, docs, visited>>

\* Lines 214-217 with a Document and a child that is not expanded.
LoopFetchDoc ==
    /\ pc = "crawl" /\ stack # <<>> /\ Top.st = "fetch"
    /\ ~ ShouldRecurse(Top.child_urls[Top.i])
    /\ LET child_url == Top.child_urls[Top.i]
           child_doc == Document(Response(child_url), child_url)
       IN  /\ fetchLog' = Logged(child_url, "doc", TRUE, Top.depth + 1,
                                 Top.input_url, Top.i)
           /\ stack' = [stack EXCEPT ![Len(stack)] =
                          [Top EXCEPT !.results = Append(Top.results, child_doc),
                                      !.st = "loop", !.i = Top.i + 1]]
    /\ UNCHANGED <<extract, cfg, site, pc, docs, visited, fails>>

\* Lines 214-220 with a Document and the recursive call on the child.
LoopFetchRecurse ==
    /\ pc = "crawl" /\ stack # <<>> /\ Top.st = "fetch"
    /\ ShouldRecurse(Top.child_urls[Top.i])
    /\ LET child_url == Top.child_urls[Top.i]
           child_doc == Document(Response(child_url), child_url)
       IN  /\ fetchLog' = Logged(child_url, "doc", TRUE, Top.depth + 1,
                                 Top.input_url, Top.i)
           /\ stack' = Append([stack EXCEPT ![Len(stack)] =
                                   [Top EXCEPT !.results = Append(Top.results, child_doc),
                                               !.st = "loop"]],
                              Frame(child_url, NextDepth(Top.depth)))
    /\ UNCHANGED <<extract, cfg, site, pc, docs, visited, fails>>

\* Line 226.
LoopReturn ==
    /\ pc = "crawl" /\ stack # <<>> /\ Top.st = "loop"
    /\ LoopFinished(Top)
    /\ Return(Top.results)
    /\ UNCHANGED <<extract, cfg, site, visited, fetchLog, fails>>

----------------------------------------------------------------------------
\* load.

\* A failed root fetch after which the crawl starts all the same.
LoadRootFailCrawls ==
    /\ pc = "start"
    /\ FALSE \in FetchOutcomes
    /\ fetchLog' = Logged(cfg.url, "doc", FALSE, 0, <<>>, 0)
    /\ fails' = fails + 1
    /\ visited' = MarkVisited(cfg.url, {})
    /\ stack' = <<Frame(cfg.url, 0)>>
    /\ pc' = "crawl"
    /\ UNCHANGED <<extract, cfg, site, docs>>

\* Line 231 with get_url_as_doc returning None: lines 230, 242.
LoadRootFail ==
    /\ pc = "start"
    /\ FALSE \in FetchOutcomes
    /\ fetchLog' = Logged(cfg.url, "doc", FALSE, 0, <<>>, 0)
    /\ fails' = fails + 1
    /\ pc' = "done"
    /\ UNCHANGED <<extract, cfg, site, docs, visited, stack>>

\* Lines 231-238.
LoadRoot ==
    /\ pc = "start"
    /\ LET root_doc == Document(Response(cfg.url), cfg.url)
       IN  docs' = Append(docs, root_doc)
    /\ fetchLog' = Logged(cfg.url, "doc", TRUE, 0, <<>>, 0)
    /\ visited' = MarkVisited(cfg.url, {})
    /\ stack' = <<Frame(cfg.url, 0)>>
    /\ pc' = "crawl"
    /\ UNCHANGED <<extract, cfg, site, fails>>

----------------------------------------------------------------------------
\* The runs: one loader, one server.

Host == <<"http:", "//h">>

\* The root as given: without and with its trailing slash, and a sub-path.
RootUrls == {Host, Host \o <<"/">>, Host \o <<"/", "a">>}

PageRoot == Host \o <<"/">>
PageA == Host \o <<"/", "a", "/">>
PageAB == Host \o <<"/", "a", "/", "b", "/">>
PageB == Host \o <<"/", "b", "/">>

\* The <a href> lists a page may hold.
LinkLists ==
    { <<>>,
      << <<"/", "a", "/">>, <<"/", "a", "/", "b", "/">> >>,
      << <<"b", "/">>, <<"c">>, <<"/">> >>,
      << <<"/">>, <<>>, <<"/", "b", "/">> >>,
      << <<"/", "a", "/">>, <<"/", "a", "/">> >>,
      << <<"http:", "//x", "/">>, <<"/", "s", ".css">>, <<"//h", "/", "a", "/">> >>,
      << <<"/", "sub", ".css">>, <<"mailto:", "x">>, <<"javascript:", "v">> >>,
      << <<"/", "sub">> >> }

\* Pages whose URL has no trailing slash, each with a link ("only", resolved
\* beside the page) that no other page holds.
PageC == Host \o <<"/", "c">>
PageAC == Host \o <<"/", "a", "/", "c">>
LeafLinks == << <<"only">>, <<"/", "a", "/">> >>

Sites ==
    {s @@ (PageC :> LeafLinks) @@ (PageAC :> LeafLinks) :
        s \in [{PageRoot, PageA, PageAB} -> LinkLists]}

Configs ==
    [url : RootUrls,
     exclude_dirs : {{}, {PageAB}, {PageRoot}},
     max_depth : 0..MaxDepthBound,
     prevent_outside : BOOLEAN]

Init ==
    /\ cfg \in Configs
    /\ site \in Sites
    /\ pc = "start"
    /\ docs = <<>>
    /\ visited = {}
    /\ stack = <<>>
    /\ fetchLog = <<>>
    /\ fails = 0
    /\ extract = [st |-> "idle"]

Next ==
    \/ LoadRootFail
    \/ LoadRoot
    \/ EnterDepthReached
    \/ EnterExcluded
    \/ EnterFetchFail
    \/ EnterFetchOk
    \/ LoopSkip
    \/ LoopVisit
    \/ LoopFetchFail
    \/ LoopFetchDoc
    \/ LoopFetchRecurse
    \/ LoopReturn

Spec == Init /\ [][Next]_vars

\* The task is sequential and every fetch ends (Ok, Err or its timeout), so a
\* step that can be taken is taken.
FairSpec == Spec /\ WF_vars(Next)

----------------------------------------------------------------------------
\* extractor: the text of a page's body.

\* A markup node: a text node, or an element with its children.
TextNode(t) == [kind |-> "text", text |-> t]
Element(name, children) == [kind |-> "element", name |-> name, children |-> children]

\* A walk that also descends into script elements.
RECURSIVE collect_text_everywhere(_)
collect_text_everywhere(children) ==
    IF children = <<>> THEN <<>>
    ELSE LET node == Head(children)
             here == IF node.kind = "element"
                     THEN collect_text_everywhere(node.children)
                     ELSE IF node.kind = "text" THEN <<node.text>> ELSE <<>>
         IN  here \o collect_text_everywhere(Tail(children))

\* Lines 45-57: the text nodes below the children, in document order, the
\* subtrees of script elements left out.
RECURSIVE collect_text_not_in_script(_)
collect_text_not_in_script(children) ==
    IF children = <<>> THEN <<>>
    ELSE LET node == Head(children)
             here == IF node.kind = "element"
                     THEN IF node.name = "script" THEN <<>>
                          ELSE collect_text_not_in_script(node.children)
                     ELSE IF node.kind = "text" THEN <<node.text>> ELSE <<>>
         IN  here \o collect_text_not_in_script(Tail(children))

\* Line 118: text.join(" ").
RECURSIVE JoinWithSpace(_)
JoinWithSpace(text) ==
    IF text = <<>> THEN <<>>
    ELSE IF Len(text) = 1 THEN text[1]
    ELSE text[1] \o <<" ">> \o JoinWithSpace(Tail(text))

\* Line 119: replace("\n", " ").replace("\t", " ").
ReplaceChar(str, from, to) == [i \in DOMAIN str |-> IF str[i] = from THEN to ELSE str[i]]

\* The class \s of the regex on the characters of the model.
IsWhitespace(c) == c \in {" ", "\n", "\t", "\r"}

\* The pattern \s in place of \s+: every whitespace character by itself.
RECURSIVE ReplaceEachWhitespace(_)
ReplaceEachWhitespace(str) ==
    IF str = <<>> THEN <<>>
    ELSE (IF IsWhitespace(Head(str)) THEN <<" ">> ELSE <<Head(str)>>)
            \o ReplaceEachWhitespace(Tail(str))

RECURSIVE SkipWhitespace(_)
SkipWhitespace(str) ==
    IF str # <<>> /\ IsWhitespace(Head(str)) THEN SkipWhitespace(Tail(str)) ELSE str

\* Lines 120-121: every maximal run matching \s+ replaced by one space.
RECURSIVE ReplaceWhitespaceRuns(_)
ReplaceWhitespaceRuns(str) ==
    IF str = <<>> THEN <<>>
    ELSE IF IsWhitespace(Head(str))
         THEN <<" ">> \o ReplaceWhitespaceRuns(SkipWhitespace(Tail(str)))
         ELSE <<Head(str)>> \o ReplaceWhitespaceRuns(Tail(str))

\* Lines 110-116.
ExtractCollect ==
    /\ extract.st = "parsed"
    /\ extract' = [extract EXCEPT !.st = "collected",
                                  !.text = collect_text_not_in_script(extract.body)]
    /\ UNCHANGED <<cfg, site, pc, docs, visited, stack, fetchLog, fails>>

\* Line 118.
ExtractJoin ==
    /\ extract.st = "collected"
    /\ extract' = [extract EXCEPT !.st = "joined",
                                  !.joined_text = JoinWithSpace(extract.text)]
    /\ UNCHANGED <<cfg, site, pc, docs, visited, stack, fetchLog, fails>>

\* Line 119.
ExtractClean ==
    /\ extract.st = "joined"
    /\ extract' = [extract EXCEPT !.st = "cleaned",
                                  !.cleaned_text =
                                      ReplaceChar(ReplaceChar(extract.joined_text, "\n", " "),
                                                  "\t", " ")]
    /\ UNCHANGED <<cfg, site, pc, docs, visited, stack, fetchLog, fails>>

\* Lines 120-121.
ExtractCollapse ==
    /\ extract.st = "cleaned"
    /\ extract' = [extract EXCEPT !.st = "done",
                                  !.out = ReplaceWhitespaceRuns(extract.cleaned_text)]
    /\ UNCHANGED <<cfg, site, pc, docs, visited, stack, fetchLog, fails>>

\* The characters of text outside scripts, and the text nodes holding them.
Chars == {"a", " ", "\n", "\t", "\r"}

Fragments == UNION {[1..n -> Chars] : n \in 1..MaxFragLen}

\* Script text is written with a character that occurs nowhere else.
ScriptText == TextNode(<<"x">>)

\* The nodes of a body: text, a comment, a script, a script with an element
\* inside, and a paragraph holding text and a script.
Nodes ==
    {TextNode(f) : f \in Fragments}
      \cup {[kind |-> "comment", text |-> <<"c">>],
            Element("script", <<ScriptText>>),
            Element("script", <<Element("b", <<ScriptText>>)>>)}
      \cup {Element("p", <<TextNode(f), Element("script", <<ScriptText>>)>>) :
               f \in Fragments}

Bodies == {<<>>} \cup {<<n>> : n \in Nodes} \cup {<<n, m>> : n \in Nodes, m \in Nodes}

ExtractInit ==
    /\ extract \in {[st |-> "parsed", body |-> b, text |-> <<>>, joined_text |-> <<>>,
                     cleaned_text |-> <<>>, out |-> <<>>] : b \in Bodies}
    /\ cfg = [url |-> Host, exclude_dirs |-> {}, max_depth |-> 0, prevent_outside |-> TRUE]
    /\ site = <<>>
    /\ pc = "done"
    /\ docs = <<>>
    /\ visited = {}
    /\ stack = <<>>
    /\ fetchLog = <<>>
    /\ fails = 0

ExtractNext ==
    \/ ExtractCollect
    \/ ExtractJoin
    \/ ExtractClean
    \/ ExtractCollapse

ExtractSpec == ExtractInit /\ [][ExtractNext]_vars

----------------------------------------------------------------------------
\* History and graph operators used by the properties.

LogIdx == DOMAIN fetchLog

RootFetched == Len(fetchLog) >= 1 /\ fetchLog[1].ok

\* The kept links of the page that expanding u fetches.
KeptLinks(u) ==
    LET url == WithSlash(u)
    IN  get_child_links(Response(url).hrefs, url)

Range(s) == {s[i] : i \in DOMAIN s}

\* The URLs reachable from the root by a chain of at most k kept links whose
\* intermediate URLs all end with '/' and are not under an excluded prefix.
RECURSIVE ReachWithin(_)
ReachWithin(k) ==
    IF k = 0 THEN {cfg.url}
    ELSE LET prev == ReachWithin(k - 1)
             hubs == {v \in prev : /\ (v = cfg.url \/ ends_with(v, "/"))
                                    /\ ~ Excluded(WithSlash(v))}
         IN  prev \cup UNION {Range(KeptLinks(v)) : v \in hubs}

Sources(ds) == {ds[i].metadata.source : i \in DOMAIN ds}

\* Every Document accumulated so far: load()'s docs, then the results of the
\* calls in progress, outermost first.
RECURSIVE FrameResults(_)
FrameResults(n) ==
    IF n = 0 THEN <<>> ELSE FrameResults(n - 1) \o stack[n].results

Acc == docs \o FrameResults(Len(stack))

IsPrefix(s, t) == Len(s) <= Len(t) /\ SubSeq(t, 1, Len(s)) = s

----------------------------------------------------------------------------
\* C1: load() terminates: on every finite link graph, for every max_depth and
\* every pattern of fetch outcomes, the run reaches the state where no call
\* of get_child_urls_recursive is in progress and the result is returned.
C1_Terminates == <>(pc = "done" /\ stack = <<>>)

\* A finished run that expanded a page linking to itself and saw a fetch fail.
C1_Witness ==
    /\ pc = "done"
    /\ fails = 1
    /\ \E n \in LogIdx :
         /\ fetchLog[n].kind = "expand" /\ fetchLog[n].ok
         /\ fetchLog[n].url \in Range(KeptLinks(fetchLog[n].url))

\* C2 (as claimed): no URL string is passed to the fetcher twice in one run.
C2_EachUrlFetchedOnce ==
    \A m, n \in LogIdx : m # n => fetchLog[m].url # fetchLog[n].url

\* C3 (as claimed): when every fetch succeeds, every URL reachable from the
\* root within max_depth kept links (intermediate URLs ending with '/') has
\* a Document in the result.
C3_AllReachableDocumented ==
    (pc = "done" /\ fails = 0) => ReachWithin(cfg.max_depth) \subseteq Sources(docs)

\* C4: no page more than max_depth link-hops below the root is fetched: a
\* call with depth >= max_depth issues no fetch and holds no documents, every
\* fetched document URL is within max_depth kept links of the root, and every
\* expanded URL within max_depth - 1.
C4_DepthBound ==
    /\ \A n \in LogIdx :
         /\ fetchLog[n].kind = "doc" =>
              /\ fetchLog[n].level <= cfg.max_depth
              /\ fetchLog[n].url \in ReachWithin(cfg.max_depth)
         /\ fetchLog[n].kind = "expand" =>
              /\ fetchLog[n].level < cfg.max_depth
              /\ fetchLog[n].parent \in ReachWithin(cfg.max_depth - 1)
    /\ \A k \in DOMAIN stack :
         stack[k].depth >= cfg.max_depth =>
              stack[k].st = "enter" /\ stack[k].results = <<>>

\* max_depth = 1, root -> /a/ -> links: documents for the root and /a/, and a
\* link kept on /a/ that was never fetched.
C4_Witness ==
    /\ pc = "done" /\ cfg.max_depth = 1 /\ fails = 0
    /\ \E k \in DOMAIN docs :
         /\ k > 1
         /\ ends_with(docs[k].metadata.source, "/")
         /\ \E l \in Range(KeptLinks(docs[k].metadata.source)) :
              \A n \in LogIdx : fetchLog[n].url # l

\* The fetch that produced the k-th Document of the result.
DocEntry(k) ==
    fetchLog[CHOOSE n \in LogIdx :
                /\ fetchLog[n].kind = "doc" /\ fetchLog[n].ok
                /\ fetchLog[n].url = docs[k].metadata.source]

\* C5: the result is in depth-first pre-order: the root first; every later
\* Document directly below the nearest earlier Document one level up, which
\* is the page its link was found on (so a child is followed by its own
\* subtree before its next sibling); children of one page in link order.
C5_PreOrder ==
    pc = "done" =>
      /\ docs # <<>> =>
           docs[1].metadata.source = cfg.url /\ DocEntry(1).level = 0
      /\ \A k \in 2..Len(docs) :
           LET above == {j \in 1..(k - 1) : DocEntry(j).level = DocEntry(k).level - 1}
               parent == CHOOSE j \in above : \A j2 \in above : j2 <= j
           IN  /\ DocEntry(k).level >= 1
               /\ DocEntry(k).level <= DocEntry(k - 1).level + 1
               /\ above # {}
               /\ docs[parent].metadata.source = DocEntry(k).parent
      /\ \A j, k \in DOMAIN docs :
           (j < k /\ j > 1 /\ DocEntry(j).parent = DocEntry(k).parent)
              => DocEntry(j).idx < DocEntry(k).idx

\* A result with a child, the child's own child, and then the child's sibling.
C5_Witness ==
    /\ pc = "done" /\ Len(docs) >= 4
    /\ \E k \in 2..(Len(docs) - 2) :
         /\ DocEntry(k).level = 1
         /\ DocEntry(k + 1).level = 2
         /\ DocEntry(k + 2).level = 1

\* C6: with max_depth = 0 and a successful root fetch, load() returns exactly
\* one Document, the root's, whatever the root page links to.
C6_DepthZero ==
    (pc = "done" /\ cfg.max_depth = 0 /\ RootFetched) =>
        /\ Len(docs) = 1
        /\ docs[1].metadata.source = cfg.url
        /\ Len(fetchLog) = 1

\* max_depth = 0 on a root page that has links the extractor would keep.
C6_Witness ==
    /\ pc = "done" /\ cfg.max_depth = 0 /\ RootFetched
    /\ KeptLinks(cfg.url) # <<>>
    /\ Len(docs) = 1

\* C7: when the fetch of the root URL fails, load() returns the empty
\* sequence and issues no other fetch: no visited set, no expansion.
C7_RootFailure ==
    (Len(fetchLog) >= 1 /\ ~ fetchLog[1].ok) =>
        /\ pc = "done"
        /\ docs = <<>>
        /\ Len(fetchLog) = 1
        /\ visited = {}
        /\ stack = <<>>

\* The root fetch of a root page with links has failed.
C7_Witness ==
    /\ pc = "done" /\ Len(fetchLog) = 1 /\ ~ fetchLog[1].ok
    /\ Response(cfg.url).hrefs # <<>>

\* C8: a failed child fetch removes only that child and its subtree: the
\* child has no Document and is never expanded; when the run ends every later
\* link of the same page has been attempted or was already visited; and the
\* Documents accumulated so far are never dropped or reordered.
C8_FailureIsLocal ==
    /\ [](\A n \in LogIdx :
            (fetchLog[n].kind = "doc" /\ ~ fetchLog[n].ok /\ n > 1) =>
               /\ fetchLog[n].url \notin Sources(Acc)
               /\ \A m \in LogIdx :
                    fetchLog[m].kind = "expand" => fetchLog[m].parent # fetchLog[n].url
               /\ pc = "done" =>
                    LET links == KeptLinks(fetchLog[n].parent)
                    IN  \A j \in DOMAIN links :
                          j > fetchLog[n].idx =>
                             \/ links[j] = cfg.url
                             \/ \E m \in LogIdx : /\ fetchLog[m].kind = "doc"
                                                  /\ fetchLog[m].url = links[j])
    /\ [][IsPrefix(Acc, Acc')]_vars

\* A child fetch failed after a Document of a sibling was accumulated, and a
\* later sibling of the same page was fetched into a Document afterwards.
C8_Witness ==
    /\ pc = "done"
    /\ \E n, m, b \in LogIdx :
         /\ fetchLog[n].kind = "doc" /\ ~ fetchLog[n].ok
         /\ fetchLog[m].kind = "doc" /\ fetchLog[m].ok /\ m > n
         /\ fetchLog[m].parent = fetchLog[n].parent
         /\ fetchLog[m].idx > fetchLog[n].idx
         /\ fetchLog[b].kind = "doc" /\ fetchLog[b].ok /\ 1 < b /\ b < n
         /\ fetchLog[b].url \in Sources(docs)
         /\ fetchLog[m].url \in Sources(docs)

\* C9: once the visited set exists it contains the root URL; it never loses
\* a URL; and a child URL is in it before the fetch of that child starts.
C9_VisitedSet ==
    /\ [](RootFetched => cfg.url \in visited)
    /\ [][visited \subseteq visited']_vars
    /\ [][\A n \in DOMAIN fetchLog' :
            (n \notin LogIdx /\ fetchLog'[n].kind = "doc" /\ n > 1)
               => fetchLog'[n].url \in visited]_vars

\* Two children have been marked and fetched.
C9_Witness ==
    /\ Cardinality(visited) >= 3
    /\ \E n \in LogIdx : n > 1 /\ fetchLog[n].kind = "doc" /\ fetchLog[n].url \in visited

\* C10 (as claimed): the root page is turned into a Document once per run,
\* and appears at most once in the result.
C10_RootDocumentOnce ==
    /\ Cardinality({n \in LogIdx : /\ fetchLog[n].kind = "doc"
                                   /\ UrlParse(fetchLog[n].url) = UrlParse(cfg.url)}) <= 1
    /\ Cardinality({k \in DOMAIN docs :
                       docs[k].page_content = UrlParse(cfg.url)}) <= 1

\* The links of the page served for u, resolved against u, unfiltered.
PageLinks(u) ==
    LET hrefs == Response(u).hrefs
    IN  {Normalize(hrefs[i], u) : i \in DOMAIN hrefs}

\* The links found on a page other than the one served for u.
LinksElsewhere(u) ==
    UNION {PageLinks(p) : p \in DOMAIN site \ {UrlParse(u)}}

\* C11: a child URL that does not end with '/' and is fetched successfully
\* gives exactly one Document and is never expanded: there is no call on it
\* and no expansion fetch for it, and a link found only on its page is never
\* fetched; a child ending with '/' is expanded by a call at depth + 1.
C11_LeafNotExpanded ==
    /\ [](\A n \in LogIdx :
            (n > 1 /\ fetchLog[n].kind = "doc" /\ fetchLog[n].ok
                   /\ ~ ends_with(fetchLog[n].url, "/")) =>
               LET u == fetchLog[n].url
               IN  /\ Cardinality({k \in DOMAIN Acc : Acc[k].metadata.source = u}) = 1
                   /\ \A k \in DOMAIN stack : stack[k].input_url # u
                   /\ \A m \in LogIdx :
                        fetchLog[m].kind = "expand" => fetchLog[m].parent # u
                   /\ \A l \in PageLinks(u) \ (LinksElsewhere(u) \cup {cfg.url}) :
                        \A m \in LogIdx : fetchLog[m].url \notin {l, WithSlash(l)})
    /\ [][\A n \in DOMAIN fetchLog' :
            (n \notin LogIdx /\ n > 1 /\ fetchLog'[n].kind = "doc" /\ fetchLog'[n].ok) =>
               IF ends_with(fetchLog'[n].url, "/")
               THEN /\ Len(stack') = Len(stack) + 1
                    /\ stack'[Len(stack')].input_url = fetchLog'[n].url
                    /\ stack'[Len(stack')].depth = stack[Len(stack)].depth + 1
                    /\ stack'[Len(stack')].st = "enter"
               ELSE Len(stack') = Len(stack)]_vars

\* A run with max_depth 2 has ended; a child without trailing slash was
\* fetched one level below the root, its page holds a link found nowhere
\* else, and a child with trailing slash was expanded.
C11_Witness ==
    /\ pc = "done" /\ cfg.max_depth = 2
    /\ \E n, m \in LogIdx :
         /\ fetchLog[n].kind = "doc" /\ fetchLog[n].ok /\ fetchLog[n].level = 1
         /\ ~ ends_with(fetchLog[n].url, "/")
         /\ PageLinks(fetchLog[n].url) \ LinksElsewhere(fetchLog[n].url) # {}
         /\ fetchLog[m].kind = "expand" /\ fetchLog[m].level = 1

\* u lies under one of the configured excluded-directory prefixes.
UnderExcludedPrefix(u) ==
    \E k \in 1..Len(u) : SubSeq(u, 1, k) \in cfg.exclude_dirs

\* C12: exclusion prunes before fetching: a call on a URL whose normalized
\* form starts with an excluded prefix returns in its next step with no
\* fetch and no documents; no expansion fetch and no child fetch is ever
\* issued for a URL under an excluded prefix, and no child Document has one.
C12_ExclusionPrunes ==
    /\ [](/\ \A n \in LogIdx :
               (n > 1 \/ fetchLog[n].kind = "expand") => ~ UnderExcludedPrefix(fetchLog[n].url)
          /\ \A k \in DOMAIN Acc :
               Acc[k].metadata.source # cfg.url => ~ UnderExcludedPrefix(Acc[k].metadata.source))
    /\ [][(/\ stack # <<>>
           /\ stack[Len(stack)].st = "enter"
           /\ UnderExcludedPrefix(WithSlash(stack[Len(stack)].input_url)))
          => /\ fetchLog' = fetchLog
             /\ Acc' = Acc
             /\ Len(stack') = Len(stack) - 1]_vars

\* The call on an excluded root has returned: one fetch (the root Document's)
\* although the root page has links and max_depth allows expanding it.
C12_Witness ==
    /\ pc = "done" /\ RootFetched /\ cfg.max_depth >= 1
    /\ UnderExcludedPrefix(WithSlash(cfg.url))
    /\ Response(cfg.url).hrefs # <<>>
    /\ Len(fetchLog) = 1 /\ Len(docs) = 1

\* u begins with the string p.
HasPrefix(u, p) == \E k \in 0..Len(u) : SubSeq(u, 1, k) = p

\* The link passes the three filters other than containment.
IsPageLink(l) ==
    /\ ~ UnderExcludedPrefix(l)
    /\ l # <<>> => l[1] \notin {"javascript:", "mailto:"}
    /\ l # <<>> => l[Len(l)] \notin {".css", ".js", ".ico", ".png", ".jpg", ".jpeg",
                                     ".gif", ".svg"}

\* The successful expansion fetches, and the links outside the fetched page.
Expansions == {n \in LogIdx : fetchLog[n].kind = "expand" /\ fetchLog[n].ok}

OutsideLinks(n) == {l \in PageLinks(fetchLog[n].url) : ~ HasPrefix(l, fetchLog[n].url)}

MeetsAllFour(l, base) ==
    /\ IsPageLink(l)
    /\ cfg.prevent_outside => HasPrefix(l, base)

\* The page's hrefs at base, resolved, in markup order.
ResolvedLinks(base) ==
    LET hrefs == Response(base).hrefs
    IN  [i \in DOMAIN hrefs |-> Normalize(hrefs[i], base)]

\* kept is all with exactly the entries meeting the four conditions left, in
\* the same order and with the same repetitions.
RECURSIVE IsFilterOf(_, _, _)
IsFilterOf(kept, all, base) ==
    IF all = <<>> THEN kept = <<>>
    ELSE IF MeetsAllFour(Head(all), base)
         THEN kept # <<>> /\ Head(kept) = Head(all)
                          /\ IsFilterOf(Tail(kept), Tail(all), base)
         ELSE IsFilterOf(kept, Tail(all), base)

\* C14: the children of an expanded page are its normalized links with
\* exactly those meeting all four conditions kept, order and duplicates
\* preserved; a child fetch is only ever issued for a link meeting them; and
\* a root page whose links are all filtered out gives exactly one Document.
C14_FilterExact ==
    /\ \A k \in DOMAIN stack :
         stack[k].st # "enter" =>
             IsFilterOf(stack[k].child_urls, ResolvedLinks(stack[k].url), stack[k].url)
    /\ \A m \in LogIdx :
         (m > 1 /\ fetchLog[m].kind = "doc") =>
             MeetsAllFour(fetchLog[m].url, WithSlash(fetchLog[m].parent))
    /\ (/\ pc = "done" /\ RootFetched
        /\ \A l \in PageLinks(WithSlash(cfg.url)) : ~ IsPageLink(l))
       => Len(docs) = 1 /\ \A m \in LogIdx : fetchLog[m].kind = "doc" => m = 1

\* The root page links only to a style sheet, a mailto: and a javascript:
\* address; it was expanded and the run ended with one Document.
C14_Witness ==
    /\ pc = "done" /\ Len(docs) = 1
    /\ Response(WithSlash(cfg.url)).hrefs # <<>>
    /\ Host \o <<"/", "sub", ".css">> \in PageLinks(WithSlash(cfg.url))
    /\ \A l \in PageLinks(WithSlash(cfg.url)) : ~ IsPageLink(l)
    /\ \E n \in Expansions : fetchLog[n].level = 0

\* A page was expanded whose links hold a duplicate, both kept in order.
C14_DuplicatesKept ==
    \E k \in DOMAIN stack :
        /\ stack[k].st # "enter"
        /\ \E i, j \in DOMAIN stack[k].child_urls :
             i < j /\ stack[k].child_urls[i] = stack[k].child_urls[j]

\* The requests the server received for the page at target.
Requests(target) == {n \in LogIdx : UrlParse(fetchLog[n].url) = target}

\* C15 (as claimed): with max_depth 2 and prevent_outside, a root given
\* without trailing slash whose page holds the one link /sub ends, when all
\* fetches succeed, with the root's Document then /sub's, and the server has
\* received one request for the root path and one for /sub.
C15_DefaultScenario ==
    (/\ pc = "done" /\ fails = 0
     /\ cfg.url = Host /\ cfg.max_depth = 2 /\ cfg.prevent_outside
     /\ cfg.exclude_dirs = {}
     /\ site[PageRoot] = << <<"/", "sub">> >>)
    => /\ Len(docs) = 2
       /\ docs[1].metadata.source = Host
       /\ docs[2].metadata.source = Host \o <<"/", "sub">>
       /\ Cardinality(Requests(Host \o <<"/", "sub">>)) = 1
       /\ Cardinality(Requests(PageRoot)) = 1

\* C15, the part the code meets: the two Documents, in order, and the one
\* request for /sub.
C15_TwoDocuments ==
    (/\ pc = "done" /\ fails = 0
     /\ cfg.url = Host /\ cfg.max_depth = 2 /\ cfg.prevent_outside
     /\ cfg.exclude_dirs = {}
     /\ site[PageRoot] = << <<"/", "sub">> >>)
    => /\ Len(docs) = 2
       /\ docs[1].metadata.source = Host
       /\ docs[2].metadata.source = Host \o <<"/", "sub">>
       /\ Cardinality(Requests(Host \o <<"/", "sub">>)) = 1

\* C16: the extractor's output holds no tab, no newline and no two spaces in
\* a row, whatever the text fragments; and no fragment below a script
\* element is among the collected fragments.
C16_Normalized ==
    /\ extract.st = "done" =>
         /\ \A i \in DOMAIN extract.out : extract.out[i] \notin {"\t", "\n"}
         /\ \A i \in 1..(Len(extract.out) - 1) :
              ~ (extract.out[i] = " " /\ extract.out[i + 1] = " ")
    /\ extract.st \in {"collected", "joined", "cleaned", "done"} =>
         \A i \in DOMAIN extract.text :
             \A j \in DOMAIN extract.text[i] : extract.text[i][j] # "x"

\* The body held a paragraph with a tab, a newline and a script, then text;
\* the output is shorter than the joined text and holds the letter.
C16_Witness ==
    /\ extract.st = "done"
    /\ Len(extract.body) = 2
    /\ extract.body[1] = Element("p", <<TextNode(<<"\t", "\n">>),
                                        Element("script", <<ScriptText>>)>>)
    /\ extract.body[2].kind = "text"
    /\ \E i \in DOMAIN extract.out : extract.out[i] = "a"
    /\ Len(extract.out) < Len(extract.joined_text)

\* The n-th fetch is the failed expansion fetch of a child (not of the root).
FailedExpansion(n) ==
    /\ fetchLog[n].kind = "expand" /\ ~ fetchLog[n].ok /\ fetchLog[n].level >= 1

\* C17: when a child's document fetch succeeds and the expansion fetch of the
\* same URL fails, the child's Document stays among the documents, nothing is
\* ever fetched from that branch, the failing call hands nothing to its
\* caller, which moves on to its next link, and by the end of the run every
\* link of the caller's page has been attempted or was already visited.
C17_ExpansionFailureLocal ==
    /\ [](\A n \in LogIdx :
            FailedExpansion(n) =>
              /\ fetchLog[n - 1].kind = "doc" /\ fetchLog[n - 1].ok
              /\ fetchLog[n - 1].url = fetchLog[n].parent
              /\ fetchLog[n].parent \in Sources(Acc)
              /\ \A m \in LogIdx :
                   fetchLog[m].kind = "doc" => fetchLog[m].parent # fetchLog[n].parent
              /\ pc = "done" =>
                   /\ fetchLog[n].parent \in Sources(docs)
                   /\ Range(KeptLinks(fetchLog[n - 1].parent)) \subseteq visited)
    /\ [][(/\ Len(fetchLog') = Len(fetchLog) + 1
           /\ fetchLog'[Len(fetchLog')].kind = "expand"
           /\ ~ fetchLog'[Len(fetchLog')].ok
           /\ fetchLog'[Len(fetchLog')].level >= 1)
          => /\ Acc' = Acc
             /\ pc' = "crawl"
             /\ Len(stack') = Len(stack) - 1
             /\ stack'[Len(stack')].st = "loop"
             /\ stack'[Len(stack')].i = stack[Len(stack) - 1].i + 1]_vars

\* A finished run in which a child's expansion fetch failed and a later
\* sibling of that child got its Document.
C17_Witness ==
    /\ pc = "done"
    /\ \E n \in LogIdx :
         /\ FailedExpansion(n)
         /\ fetchLog[n].parent \in Sources(docs)
         /\ \E m \in LogIdx :
              /\ m > n
              /\ fetchLog[m].kind = "doc" /\ fetchLog[m].ok
              /\ fetchLog[m].parent = fetchLog[n - 1].parent
              /\ fetchLog[m].idx > fetchLog[n - 1].idx
              /\ fetchLog[m].url \in Sources(docs)

\* C18: the sources of the Documents are pairwise distinct URL strings, each
\* is in the visited set, and there are no more Documents than visited URLs:
\* of the documents accumulated at any moment, and of the result of load().
C18_SourcesDistinct ==
    /\ \A i, j \in DOMAIN Acc :
         i # j => Acc[i].metadata.source # Acc[j].metadata.source
    /\ Sources(Acc) \subseteq visited
    /\ Len(Acc) <= Cardinality(visited)
    /\ pc = "done" =>
         /\ \A i, j \in DOMAIN docs :
              i # j => docs[i].metadata.source # docs[j].metadata.source
         /\ Sources(docs) \subseteq visited
         /\ Len(docs) <= Cardinality(visited)

\* A result of three or more Documents from a run in which two expanded
\* pages held a link to the same documented URL.
C18_Witness ==
    /\ pc = "done"
    /\ Len(docs) >= 3
    /\ \E m, n \in LogIdx :
         /\ m < n
         /\ fetchLog[m].kind = "expand" /\ fetchLog[m].ok
         /\ fetchLog[n].kind = "expand" /\ fetchLog[n].ok
         /\ \E l \in Range(KeptLinks(fetchLog[m].parent)) :
              /\ l \in Range(KeptLinks(fetchLog[n].parent))
              /\ l \in Sources(docs)

\* The root URL with its trailing slash: the prefix of the crawl.
RootPrefix == IF cfg.url[Len(cfg.url)] = "/" THEN cfg.url ELSE cfg.url \o <<"/">>

FailedChild(n) ==
    /\ fetchLog[n].kind = "doc" /\ ~ fetchLog[n].ok /\ fetchLog[n].level >= 1

\* C20: a child is in the visited set when its fetch is issued; a child whose
\* document fetch failed stays in the visited set, has no Document, and its
\* URL is passed to no later fetch of the run.
C20_FailedChildNotRetried ==
    /\ \A k \in DOMAIN stack :
         stack[k].st = "fetch" => stack[k].child_urls[stack[k].i] \in visited
    /\ \A n \in LogIdx :
         FailedChild(n) =>
           /\ fetchLog[n].url \in visited
           /\ fetchLog[n].url \notin Sources(Acc)
           /\ \A m \in LogIdx : m > n => fetchLog[m].url # fetchLog[n].url

\* A finished run in which a child's fetch failed and a page expanded later
\* held a kept link to that child.
C20_Witness ==
    /\ pc = "done"
    /\ \E n \in LogIdx :
         /\ FailedChild(n)
         /\ \E m \in LogIdx :
              /\ m > n
              /\ fetchLog[m].kind = "expand" /\ fetchLog[m].ok
              /\ fetchLog[m].parent # fetchLog[n].parent
              /\ fetchLog[n].url \in Range(KeptLinks(fetchLog[m].parent))

====
